---- MODULE Spec2Model ----
(***************************************************************************)
(* Cluster robust cross-fitting as documented and driven by the notebooks  *)
(* doc/examples/py_double_ml_multiway_cluster.ipynb and its R twin: the    *)
(* K-fold sample splitting per cluster dimension, the K^2 (or K) folds     *)
(* built from it, the per-fold nuisance fit and score evaluation, the      *)
(* final aggregation, the cluster robust variance estimator and repeated   *)
(* cross-fitting; and the page script of the guide's table of contents,    *)
(* doc/_templates/toc-doubleml-guide.html.                                 *)
(***************************************************************************)
EXTENDS Integers, FiniteSets, Sequences, TLC

\* Bounds of the model (the notebooks use N = M = 25 and n_folds = 3).
\* MaxN, MaxM, MaxK bound the runs of the sample splitting alone; the runs
\* that go on to fit every fold in every interleaving use the smaller
\* MaxFitSize (for N and M) and MaxFitK.
MaxN == 3
MaxM == 3
MaxK == 3
MaxFitSize == 2
MaxFitK == 2

VARIABLES
    N,               \* number of clusters in the first dimension
    M,               \* number of clusters in the second dimension
    n_folds,         \* K, the n_folds argument of DoubleMLPLIV
    n_cluster_vars,  \* 2 for cluster_cols = [i, j], 1 for cluster_cols = 'cluster_var_i'
    pc,              \* "new", "constructed", "config_error", "fitting", "done"
    I_part,          \* fold number of every first-dimension cluster id
    J_part,          \* fold number of every second-dimension cluster id
    smpls_cluster,   \* per fold: train and test cluster ids per cluster variable
    smpls,           \* per fold: train and test observations
    stage,           \* per fold: "pending", "fitted", "scored"
    fit_on,          \* per fold: observations the nuisance estimate was fit on
    eval_on,         \* per fold: observations the score was evaluated on
    eta_used,        \* per fold: folds whose nuisance estimate the score used
    aggregated,      \* TRUE once the variance components have been aggregated
    est,             \* the variance estimator: inputs psi, psi_a, running sums, results
    reps,            \* the repetitions of a run with n_rep > 1
    toc,             \* the table-of-contents page of the guide template
    plots,           \* the matrices drawn by plt_smpls and plt_smpls_cluster
    nb               \* the DoubleMLPLR objects of the pipeline notebook

vars == <<N, M, n_folds, n_cluster_vars, pc, I_part, J_part, smpls_cluster,
          smpls, stage, fit_on, eval_on, eta_used, aggregated, est, reps, toc,
          plots, nb>>

\* The parts of the state the cross-fitting run of one repetition leaves alone.
ext == <<est, reps, toc, plots, nb>>

params == <<N, M, n_folds, n_cluster_vars>>

(***************************************************************************)
(* The sample splitting                                                    *)
(***************************************************************************)

\* The double-indexed observations W_ij.
Obs(n, m) == (1..n) \X (1..m)

\* Variant: any assignment of fold numbers, subsets may stay empty.
RandomPartitionsAnyBlocks(n, k) == [1..n -> 1..k]

\* "randomly partition [N] into K subsets {I_1, ..., I_K}": every way of
\* giving each id a fold number such that I_1..I_K is a partition of [N].
RandomPartitions(n, k) ==
    {f \in [1..n -> 1..k] : \A b \in 1..k : \E i \in 1..n : f[i] = b}

\* Variant: cumulative subsets, which overlap.
BlockUpTo(part, k) == {i \in DOMAIN part : part[i] <= k}

\* The subset I_k (or J_l) of a partition family.
Block(part, k) == {i \in DOMAIN part : part[i] = k}

\* The complement [N] \ I_k.
BlockC(part, k) == DOMAIN part \ Block(part, k)

\* Variant: K^2 folds whatever the number of cluster variables.
NumSplitsAlwaysSquare(k, dims) == k * k

\* Number of folds: one per combination of the cluster dimensions' subsets.
NumSplits(k, dims) == IF dims = 2 THEN k * k ELSE k

\* Variant: k taken as the remainder, like l.
FoldKByRemainder(i_split, k, dims) == IF dims = 2 THEN (i_split % k) + 1 ELSE i_split + 1

\* Fold position -> (k, l), as the subplot titles number the folds.
FoldK(i_split, k, dims) == IF dims = 2 THEN (i_split \div k) + 1 ELSE i_split + 1

FoldL(i_split, k, dims) == IF dims = 2 THEN (i_split % k) + 1 ELSE 1

\* Cluster ids of one fold, per cluster variable: <<first, second>> or <<first>>.
TestClusters(pI, pJ, i_split, k, dims) ==
    IF dims = 2
    THEN <<Block(pI, FoldK(i_split, k, dims)), Block(pJ, FoldL(i_split, k, dims))>>
    ELSE <<Block(pI, FoldK(i_split, k, dims))>>

TrainClusters(pI, pJ, i_split, k, dims) ==
    IF dims = 2
    THEN <<BlockC(pI, FoldK(i_split, k, dims)), BlockC(pJ, FoldL(i_split, k, dims))>>
    ELSE <<BlockC(pI, FoldK(i_split, k, dims))>>

\* Observations whose cluster id lies in ids[d] for every cluster variable d.
ObsInClusters(ids, n, m) ==
    {o \in Obs(n, m) : \A d \in 1..Len(ids) : o[d] \in ids[d]}

\* Variant: a plain K-fold complement, everything that is not in the score sample.
TrainObsPlainComplement(pI, pJ, i_split, k, dims, n, m) ==
    Obs(n, m) \ ObsInClusters(TestClusters(pI, pJ, i_split, k, dims), n, m)

\* Variant: one-way clustering taken as the two-way rule with J_1 = [M]: the second
\* factor ([M] \ J_1) of the nuisance sample is empty.
TrainObsTrivialSecond(pI, pJ, i_split, k, dims, n, m) ==
    IF dims = 2
    THEN ObsInClusters(TrainClusters(pI, pJ, i_split, k, dims), n, m)
    ELSE {o \in Obs(n, m) : o[1] \in BlockC(pI, FoldK(i_split, k, dims))
                             /\ o[2] \in (1..m) \ (1..m)}

\* The nuisance sample of a fold: cluster ids outside the fold's subset in
\* every clustered dimension.
TrainObs(pI, pJ, i_split, k, dims, n, m) ==
    ObsInClusters(TrainClusters(pI, pJ, i_split, k, dims), n, m)

\* The score sample of a fold.
TestObs(pI, pJ, i_split, k, dims, n, m) ==
    ObsInClusters(TestClusters(pI, pJ, i_split, k, dims), n, m)

\* Variant: only the first dimension is looked at.
DegenerateFirstDimOnly(n, m, k, dims) == k > n

\* K exceeds the number of distinct cluster ids of a clustered dimension.
DegeneratePartition(n, m, k, dims) == k > n \/ (dims = 2 /\ k > m)

(***************************************************************************)
(* Initial state and operations                                            *)
(***************************************************************************)

\* Nothing estimated, no repetition drawn, no page shown.
EstIdle == [pc |-> "idle"]

RepsIdle == [pc |-> "idle"]

TocIdle == [pc |-> "idle"]

PlotsIdle == [pc |-> "idle"]

NbIdle == [pc |-> "idle"]

InitWith(maxN, maxM, maxK) ==
    /\ N \in 1..maxN
    /\ M \in 1..maxM
    /\ n_folds \in 1..maxK
    /\ n_cluster_vars \in {1, 2}
    /\ est = EstIdle
    /\ reps = RepsIdle
    /\ toc = TocIdle
    /\ plots = PlotsIdle
    /\ nb = NbIdle
    /\ pc = "new"
    /\ I_part = <<>>
    /\ J_part = <<>>
    /\ smpls_cluster = <<>>
    /\ smpls = <<>>
    /\ stage = <<>>
    /\ fit_on = <<>>
    /\ eval_on = <<>>
    /\ eta_used = <<>>
    /\ aggregated = FALSE

Init == InitWith(MaxFitSize, MaxFitSize, MaxFitK)

InitSplit == InitWith(MaxN, MaxM, MaxK)

\* DoubleMLPLIV(obj_dml_data, ml_g, ml_m, ml_r, n_folds=K) with a K that has
\* no partition: the configuration error.
ConfigError ==
    /\ pc = "new"
    /\ DegeneratePartition(N, M, n_folds, n_cluster_vars)
    /\ pc' = "config_error"
    /\ UNCHANGED <<params, I_part, J_part, smpls_cluster, smpls, stage,
                   fit_on, eval_on, eta_used, aggregated, ext>>

\* DoubleMLPLIV(obj_dml_data, ml_g, ml_m, ml_r, n_folds=K): the constructor
\* draws the sample splitting; smpls and smpls_cluster are readable before fit().
DrawSampleSplitting ==
    /\ pc = "new"
    /\ ~DegeneratePartition(N, M, n_folds, n_cluster_vars)
    /\ \E pI \in RandomPartitions(N, n_folds) :
       \E pJ \in IF n_cluster_vars = 2 THEN RandomPartitions(M, n_folds)
                                       ELSE {<<>>} :
          LET F == 0..(NumSplits(n_folds, n_cluster_vars) - 1) IN
          /\ I_part' = pI
          /\ J_part' = pJ
          /\ smpls_cluster' =
                [f \in F |->
                    [train_ids |-> TrainClusters(pI, pJ, f, n_folds, n_cluster_vars),
                     test_ids  |-> TestClusters(pI, pJ, f, n_folds, n_cluster_vars)]]
          /\ smpls' =
                [f \in F |->
                    [train_ids |-> TrainObs(pI, pJ, f, n_folds, n_cluster_vars, N, M),
                     test_ids  |-> TestObs(pI, pJ, f, n_folds, n_cluster_vars, N, M)]]
          /\ stage' = [f \in F |-> "pending"]
          /\ fit_on' = [f \in F |-> {}]
          /\ eval_on' = [f \in F |-> {}]
          /\ eta_used' = [f \in F |-> {}]
    /\ pc' = "constructed"
    /\ UNCHANGED <<params, aggregated, ext>>

\* Variant: fit() goes ahead whatever the constructor's outcome.
StartFitWhatever ==
    /\ pc \in {"constructed", "config_error"}
    /\ pc' = "fitting"
    /\ UNCHANGED <<params, I_part, J_part, smpls_cluster, smpls, stage,
                   fit_on, eval_on, eta_used, aggregated, ext>>

\* dml_pliv_obj.fit()
StartFit ==
    /\ pc = "constructed"
    /\ pc' = "fitting"
    /\ UNCHANGED <<params, I_part, J_part, smpls_cluster, smpls, stage,
                   fit_on, eval_on, eta_used, aggregated, ext>>

\* Variant: one learner object shared by the folds: a fit replaces the estimate
\* of every fold fitted before it.
FitNuisanceSharedLearner(f) ==
    /\ pc = "fitting"
    /\ stage[f] = "pending"
    /\ stage' = [stage EXCEPT ![f] = "fitted"]
    /\ fit_on' = [g \in DOMAIN fit_on |->
                     IF g = f \/ stage[g] = "fitted"
                     THEN smpls[f].train_ids ELSE fit_on[g]]
    /\ UNCHANGED <<params, pc, I_part, J_part, smpls_cluster, smpls,
                   eval_on, eta_used, aggregated, ext>>

\* eta_hat_kl = eta_hat((W_ij) for (i,j) in ([N] \ I_k) x ([M] \ J_l))
FitNuisance(f) ==
    /\ pc = "fitting"
    /\ stage[f] = "pending"
    /\ stage' = [stage EXCEPT ![f] = "fitted"]
    /\ fit_on' = [fit_on EXCEPT ![f] = smpls[f].train_ids]
    /\ UNCHANGED <<params, pc, I_part, J_part, smpls_cluster, smpls,
                   eval_on, eta_used, aggregated, ext>>

\* Variant: the estimate is evaluated on the sample it was fit on.
EvalScoreInSample(f) == smpls[f].train_ids

\* psi(W_ij, theta, eta_hat_kl) for (i,j) in I_k x J_l
EvalScoreTarget(f) == smpls[f].test_ids

\* Variant: the moment condition is evaluated on a fold whether or not its
\* nuisance estimate has been fit.
EvalScoreAnyStage(f) ==
    /\ pc = "fitting"
    /\ stage[f] # "scored"
    /\ stage' = [stage EXCEPT ![f] = "scored"]
    /\ eval_on' = [eval_on EXCEPT ![f] = EvalScoreTarget(f)]
    /\ eta_used' = [eta_used EXCEPT ![f] = {f}]
    /\ UNCHANGED <<params, pc, I_part, J_part, smpls_cluster, smpls,
                   fit_on, aggregated, ext>>

\* The moment condition of fold (k,l): eta_hat_kl evaluated on I_k x J_l.
EvalScore(f) ==
    /\ pc = "fitting"
    /\ stage[f] = "fitted"
    /\ stage' = [stage EXCEPT ![f] = "scored"]
    /\ eval_on' = [eval_on EXCEPT ![f] = EvalScoreTarget(f)]
    /\ eta_used' = [eta_used EXCEPT ![f] = {f}]
    /\ UNCHANGED <<params, pc, I_part, J_part, smpls_cluster, smpls,
                   fit_on, aggregated, ext>>

\* Variant: one finished fold is enough.
SomeFoldDone == \E f \in DOMAIN stage : stage[f] = "scored"

\* The reduction over the folds' results waits for every fold.
AllFoldsDone == \A f \in DOMAIN stage : stage[f] = "scored"

Aggregate ==
    /\ pc = "fitting"
    /\ AllFoldsDone
    /\ pc' = "done"
    /\ aggregated' = TRUE
    /\ UNCHANGED <<params, I_part, J_part, smpls_cluster, smpls, stage,
                   fit_on, eval_on, eta_used, ext>>

Next ==
    \/ ConfigError
    \/ DrawSampleSplitting
    \/ StartFit
    \/ \E f \in DOMAIN stage : FitNuisance(f)
    \/ \E f \in DOMAIN stage : EvalScore(f)
    \/ Aggregate

Spec == Init /\ [][Next]_vars

\* The construction alone: the sample splitting and its error outcome.
NextSplit ==
    \/ ConfigError
    \/ DrawSampleSplitting

SpecSplit == InitSplit /\ [][NextSplit]_vars

\* Bounds of the runs with the K of the notebook's real-data example.
MaxTwoFoldN == 3
MaxTwoFoldM == 3

\* DoubleMLPLIV(..., n_folds=2, ...): the K of the two-way clustered run on the
\* real data.
n_folds_two_way == 2

\* An object about to be constructed with n_folds=2.
InitTwoFolds ==
    /\ N \in 1..MaxTwoFoldN
    /\ M \in 1..MaxTwoFoldM
    /\ n_folds = n_folds_two_way
    /\ n_cluster_vars \in {1, 2}
    /\ est = EstIdle
    /\ reps = RepsIdle
    /\ toc = TocIdle
    /\ plots = PlotsIdle
    /\ nb = NbIdle
    /\ pc = "new"
    /\ I_part = <<>>
    /\ J_part = <<>>
    /\ smpls_cluster = <<>>
    /\ smpls = <<>>
    /\ stage = <<>>
    /\ fit_on = <<>>
    /\ eval_on = <<>>
    /\ eta_used = <<>>
    /\ aggregated = FALSE

\* The folds' fits and evaluations, interleaved, with n_folds=2.
SpecTwoFolds == InitTwoFolds /\ [][Next]_vars

\* The lifecycle of the folds: generated, consumed by the fits and the moment
\* conditions, then discarded.
Discard ==
    /\ pc = "done"
    /\ pc' = "discarded"
    /\ smpls' = <<>>
    /\ smpls_cluster' = <<>>
    /\ UNCHANGED <<params, I_part, J_part, stage, fit_on, eval_on, eta_used,
                   aggregated, ext>>

NextLife ==
    \/ Next
    \/ Discard

SpecLife == InitTwoFolds /\ [][NextLife]_vars

(***************************************************************************)
(* The cluster robust variance estimator                                   *)
(*   sigma^2 = J^-1 Gamma J^-1,  Gamma and J averages over the K^2 folds   *)
(* computed in exact rational arithmetic: a rational is a pair <<p, q>>    *)
(* in lowest terms with q > 0; <<0, 0>> stands for the outcome of a        *)
(* division by zero.                                                       *)
(***************************************************************************)

\* Bound of the variance specification: the families of score values.
MaxSeed == 2

Abs(x) == IF x < 0 THEN -x ELSE x

RECURSIVE GCD(_, _)
GCD(a, b) == IF b = 0 THEN a ELSE GCD(b, a % b)

Rat(p, q) ==
    IF q = 0 THEN <<0, 0>>
    ELSE LET g == GCD(Abs(p), Abs(q))
             s == IF q < 0 THEN -1 ELSE 1
         IN  <<(s * p) \div g, (s * q) \div g>>

\* Variant: the running mean of the two operands instead of their sum.
RatAddHalving(a, b) == Rat(a[1] * b[2] + b[1] * a[2], 2 * a[2] * b[2])

\* The + of the sums over the folds.
RatAdd(a, b) == Rat(a[1] * b[2] + b[1] * a[2], a[2] * b[2])

\* a / b, the J^-1 and 1/K^2 of the formulas.
RatDiv(a, b) == Rat(a[1] * b[2], a[2] * b[1])

Min(a, b) == IF a <= b THEN a ELSE b

RECURSIVE SumOver(_, _)
\* sum of g[x] over x in S, g an integer-valued function
SumOver(S, g) ==
    IF S = {} THEN 0
    ELSE LET x == CHOOSE y \in S : TRUE IN g[x] + SumOver(S \ {x}, g)

\* The score values psi(W_ij; theta, eta_kl) and psi_a(W_ij; theta, eta_kl) the
\* estimator is handed: every observation is scored by exactly one fold, so
\* they are functions of the observation.  Drawn from a small family.
PsiOf(seed, n, m) ==
    [o \in Obs(n, m) |-> ((seed * (3 * o[1] + o[2])) % 5) - 2]

PsiAOf(seed, n, m) ==
    [o \in Obs(n, m) |-> 1 + ((seed + o[1] * o[2]) % 3)]

\* I_k and J_l of fold f, and its score sample I_k x J_l
FoldI(f) == smpls_cluster[f].test_ids[1]

FoldJ(f) == smpls_cluster[f].test_ids[2]

FoldObs(f) == FoldI(f) \X FoldJ(f)

\* sum_{i in I_k} sum_{j in J_l} sum_{j' in J_l}: the pairs (W_ij, W_ij')
FirstSumPairs(I, J) ==
    {<<<<i, j>>, <<i, jp>>>> : i \in I, j \in J, jp \in J}

\* Variant: the second sum runs over nothing.
SecondSumPairsNone(I, J) == {}

\* sum_{i in I_k} sum_{i' in I_k} sum_{j in J_l}: the pairs (W_ij, W_i'j)
SecondSumPairs(I, J) ==
    {<<<<i, j>>, <<ip, j>>>> : i \in I, ip \in I, j \in J}

\* sum of psi(o) psi(o') over a set of pairs
PairSum(pairs, psi) ==
    SumOver(pairs, [pr \in pairs |-> psi[pr[1]] * psi[pr[2]]])

\* Variant: the fold's sum of psi_a over the pooled number of observations.
FoldMeanPsiAPooled(f, psi_a) ==
    Rat(n_folds * n_folds * SumOver(FoldObs(f), psi_a), N * M)

\* 1/(|I_k||J_l|) sum_{i in I_k} sum_{j in J_l} psi_a(W_ij)
FoldMeanPsiA(f, psi_a) ==
    Rat(SumOver(FoldObs(f), psi_a), Cardinality(FoldI(f)) * Cardinality(FoldJ(f)))

\* (|I_k| ^ |J_l|) / (|I_k||J_l|)^2 ( first sum + second sum )
FoldGamma(f, psi) ==
    LET ni == Cardinality(FoldI(f))
        nj == Cardinality(FoldJ(f))
    IN  Rat(Min(ni, nj) * (PairSum(FirstSumPairs(FoldI(f), FoldJ(f)), psi)
                           + PairSum(SecondSumPairs(FoldI(f), FoldJ(f)), psi)),
            (ni * nj) * (ni * nj))

\* Variant: the larger of the two cluster counts.
ScalingCTwoWayMax(n, m) == IF n >= m THEN n ELSE m

\* C = N ^ M
ScalingCTwoWay(n, m) == Min(n, m)

\* with one clustering dimension C is N
ScalingCOneWay(n) == n

ScalingC(n, m, dims) ==
    IF dims = 2 THEN ScalingCTwoWay(n, m) ELSE ScalingCOneWay(n)

\* The estimator takes the scores of a constructed object and fixes the
\* scaling constant of the confidence interval.
StartEstimate ==
    /\ pc = "constructed"
    /\ est.pc = "idle"
    /\ \E seed \in 1..MaxSeed :
          est' = [pc        |-> "summing",
                  psi       |-> PsiOf(seed, N, M),
                  psi_a     |-> PsiAOf(seed, N, M),
                  C         |-> ScalingC(N, M, n_cluster_vars),
                  added     |-> {},
                  fold_J    |-> [f \in DOMAIN smpls_cluster |-> <<0, 1>>],
                  fold_G    |-> [f \in DOMAIN smpls_cluster |-> <<0, 1>>],
                  acc_J     |-> <<0, 1>>,
                  acc_G     |-> <<0, 1>>,
                  divisors  |-> {}]
    /\ UNCHANGED <<params, pc, I_part, J_part, smpls_cluster, smpls, stage,
                   fit_on, eval_on, eta_used, aggregated, reps, toc,
                   plots, nb>>

\* One term of the sums over (k,l) in [K]^2 is added to the running sums; the
\* terms come in any order.
AddFold(f) ==
    /\ est.pc = "summing"
    /\ n_cluster_vars = 2
    /\ f \in DOMAIN smpls_cluster
    /\ f \notin est.added
    /\ LET cJ == FoldMeanPsiA(f, est.psi_a)
           cG == FoldGamma(f, est.psi)
       IN  est' = [est EXCEPT !.added = @ \cup {f},
                              !.fold_J[f] = cJ,
                              !.fold_G[f] = cG,
                              !.acc_J = RatAdd(@, cJ),
                              !.acc_G = RatAdd(@, cG),
                              !.divisors = @ \cup {Cardinality(FoldI(f))
                                                   * Cardinality(FoldJ(f))}]
    /\ UNCHANGED <<params, pc, I_part, J_part, smpls_cluster, smpls, stage,
                   fit_on, eval_on, eta_used, aggregated, reps, toc,
                   plots, nb>>

\* Gamma = sum / K^2, J = sum / K^2, sigma^2 = J^-1 Gamma J^-1
FinishVariance ==
    /\ est.pc = "summing"
    /\ n_cluster_vars = 2
    /\ est.added = DOMAIN smpls_cluster
    /\ LET K2 == <<n_folds * n_folds, 1>>
           J == RatDiv(est.acc_J, K2)
           G == RatDiv(est.acc_G, K2)
       IN  est' = [pc        |-> "done",
                   psi       |-> est.psi,
                   psi_a     |-> est.psi_a,
                   C         |-> est.C,
                   added     |-> est.added,
                   fold_J    |-> est.fold_J,
                   fold_G    |-> est.fold_G,
                   acc_J     |-> est.acc_J,
                   acc_G     |-> est.acc_G,
                   divisors  |-> est.divisors \cup {n_folds * n_folds},
                   J_hat     |-> J,
                   Gamma_hat |-> G,
                   sigma2    |-> RatDiv(RatDiv(G, J), J)]
    /\ UNCHANGED <<params, pc, I_part, J_part, smpls_cluster, smpls, stage,
                   fit_on, eval_on, eta_used, aggregated, reps, toc,
                   plots, nb>>

NextVar ==
    \/ ConfigError
    \/ DrawSampleSplitting
    \/ StartEstimate
    \/ \E f \in 0..(NumSplits(n_folds, n_cluster_vars) - 1) : AddFold(f)
    \/ FinishVariance

SpecVar == InitTwoFolds /\ [][NextVar]_vars

(***************************************************************************)
(* Repeated cross-fitting: DoubleMLPLIV(..., n_folds=2, n_rep=n_rep).      *)
(* smpls is a list with one sample splitting per repetition, as in         *)
(* dml_pliv_obj.smpls[0].                                                  *)
(***************************************************************************)

\* Bounds of the repetition specification.
MaxRepN == 2
MaxRepM == 2
MaxReps == 2

InitRep ==
    /\ N \in 1..MaxRepN
    /\ M \in 1..MaxRepM
    /\ n_folds = n_folds_two_way
    /\ n_cluster_vars \in {1, 2}
    /\ est = EstIdle
    /\ \E n \in 1..MaxReps :
          reps = [pc |-> "drawing", n_rep |-> n, parts |-> <<>>,
                  smpls |-> <<>>, fits |-> <<>>]
    /\ toc = TocIdle
    /\ plots = PlotsIdle
    /\ nb = NbIdle
    /\ pc = "new"
    /\ I_part = <<>>
    /\ J_part = <<>>
    /\ smpls_cluster = <<>>
    /\ smpls = <<>>
    /\ stage = <<>>
    /\ fit_on = <<>>
    /\ eval_on = <<>>
    /\ eta_used = <<>>
    /\ aggregated = FALSE

\* The folds of one repetition, built from its pair of partition families.
RepSmpls(pI, pJ) ==
    [f \in 0..(NumSplits(n_folds, n_cluster_vars) - 1) |->
        [train_ids |-> TrainObs(pI, pJ, f, n_folds, n_cluster_vars, N, M),
         test_ids  |-> TestObs(pI, pJ, f, n_folds, n_cluster_vars, N, M)]]

\* The constructor draws one sample splitting per repetition, each from its
\* own random partitions.
DrawRep ==
    /\ pc = "new"
    /\ reps.pc = "drawing"
    /\ ~DegeneratePartition(N, M, n_folds, n_cluster_vars)
    /\ Len(reps.parts) < reps.n_rep
    /\ \E pI \in RandomPartitions(N, n_folds) :
       \E pJ \in IF n_cluster_vars = 2 THEN RandomPartitions(M, n_folds)
                                       ELSE {<<>>} :
          reps' = [reps EXCEPT !.parts = Append(@, <<pI, pJ>>),
                               !.smpls = Append(@, RepSmpls(pI, pJ))]
    /\ pc' = IF Len(reps.parts) + 1 = reps.n_rep THEN "constructed" ELSE "new"
    /\ UNCHANGED <<params, I_part, J_part, smpls_cluster, smpls, stage,
                   fit_on, eval_on, eta_used, aggregated, est, toc,
                   plots, nb>>

\* Variant: every repetition is fit on the folds of the first one.
RepFoldsFirst(r) == 1

\* The repetition whose folds the fits of repetition r use: its own.
RepFoldsToFit(r) == r

\* fit() works through the repetitions one after the other; a repetition's
\* nuisance estimates are fit and evaluated on that repetition's folds.
FitRep ==
    /\ pc = "constructed"
    /\ reps.pc = "drawing"
    /\ Len(reps.fits) < reps.n_rep
    /\ LET r == Len(reps.fits) + 1
           src == RepFoldsToFit(r)
       IN  reps' = [reps EXCEPT !.fits = Append(@,
                       [f \in DOMAIN reps.smpls[src] |->
                           [rep     |-> src,
                            fit_on  |-> reps.smpls[src][f].train_ids,
                            eval_on |-> reps.smpls[src][f].test_ids]])]
    /\ UNCHANGED <<params, pc, I_part, J_part, smpls_cluster, smpls, stage,
                   fit_on, eval_on, eta_used, aggregated, est, toc,
                   plots, nb>>

\* The caller's aggregation over the repetitions.
AggregateReps ==
    /\ pc = "constructed"
    /\ reps.pc = "drawing"
    /\ Len(reps.fits) = reps.n_rep
    /\ reps' = [reps EXCEPT !.pc = "done"]
    /\ UNCHANGED <<params, pc, I_part, J_part, smpls_cluster, smpls, stage,
                   fit_on, eval_on, eta_used, aggregated, est, toc,
                   plots, nb>>

NextRep ==
    \/ ConfigError
    \/ DrawRep
    \/ FitRep
    \/ AggregateReps

SpecRep == InitRep /\ [][NextRep]_vars

(***************************************************************************)
(* The table-of-contents page of doc/_templates/toc-doubleml-guide.html:   *)
(* the $(document).ready callback, the window load event and the resize    *)
(* listener.                                                               *)
(***************************************************************************)

\* Bounds of the page specification: chapters on the page, and item heights
\* up to MaxRows grid rows and one pixel more.
MaxItems == 2
MaxRows == 2

\* grid-auto-rows: 0px
grid_auto_rows == 0

\* grid-gap: 15px
grid_gap == 15

\* The heights an item's chapter block can have: on and just past the row
\* boundaries.
HeightValues == {r * grid_gap + d : r \in 0..MaxRows, d \in {0, 1}}

\* Variant: the quotient rounded down.
CeilDivRoundedDown(a, b) == a \div b

\* Math.ceil(a / b) for a >= 0, b > 0
CeilDiv(a, b) == (a + b - 1) \div b

\* rowSpan = Math.ceil((height + rowGap) / (rowHeight + rowGap))
RowSpan(h) == CeilDiv(h + grid_gap, grid_auto_rows + grid_gap)

\* What a call of addChapters, addSections or resizeAllGridItems evaluates to:
\* none of them has a return statement.
CallResult(fn) == "undefined"

\* Variant: the function itself is assigned, not the result of calling it.
OnloadAfterAssigningHandler(fn, v) == fn

\* window.onload after window.onload = v, v the result of calling fn: an event
\* handler attribute that is given something that is not callable holds null.
OnloadAfterAssigning(fn, v) == IF v = "function" THEN fn ELSE "null"

\* Text is a sequence of one-character strings.

RECURSIVE SplitFrom(_, _, _)
\* s.split(sep): the pieces of s between the occurrences of sep, with cur the
\* piece read so far
SplitFrom(s, sep, cur) ==
    IF s = <<>> THEN <<cur>>
    ELSE IF Head(s) = sep THEN <<cur>> \o SplitFrom(Tail(s), sep, <<>>)
    ELSE SplitFrom(Tail(s), sep, Append(cur, Head(s)))

Split(s, sep) == SplitFrom(s, sep, <<>>)

RECURSIVE Join(_, _)
\* pieces.join(sep)
Join(pieces, sep) ==
    IF pieces = <<>> THEN <<>>
    ELSE IF Len(pieces) = 1 THEN pieces[1]
    ELSE pieces[1] \o <<sep>> \o Join(Tail(pieces), sep)

\* s.slice(-2): the last two characters
SliceLastTwo(s) == IF Len(s) <= 2 THEN s ELSE SubSeq(s, Len(s) - 1, Len(s))

\* s.substring(1)
SubstringFromOne(s) == SubSeq(s, 2, Len(s))

\* pieces.slice(1)
SliceFromOne(pieces) == SubSeq(pieces, 2, Len(pieces))

\* Variant: everything after the first period and the blank behind it.
ChapterTitleAfterFirstPeriod(text) ==
    SubstringFromOne(Join(SliceFromOne(Split(text, ".")), "."))

\* addChapters: textContent.split(".")[1].substring(1), the new link text
ChapterTitle(text) == SubstringFromOne(Split(text, ".")[2])

\* addChapters: ('0' + textContent.split(".")[0]).slice(-2), the header number
ChapterNumber(text) == SliceLastTwo(<<"0">> \o Split(text, ".")[1])

\* addChapters, for one chapter of the node list: a p.item-header-number is
\* inserted before the link and the link text is replaced.
AddChapterNumber(ch) ==
    [ch EXCEPT !.numbers = Append(@, [class |-> "item-header-number",
                                      text  |-> ChapterNumber(ch.text)]),
               !.text = ChapterTitle(ch.text)]

\* addSections: textContent.split(" ")[0]
SectionNumber(text) == Split(text, " ")[1]

\* addSections: textContent.split(" ").slice(1).join(" ")
SectionName(text) == Join(SliceFromOne(Split(text, " ")), " ")

\* A p of class cls holding the entry's number is inserted before the entry's
\* link and the link text is replaced by the name.
Decorate(entry, cls) ==
    [entry EXCEPT !.numbers = Append(@, [class |-> cls,
                                         text  |-> SectionNumber(entry.text)]),
                  !.text = SectionName(entry.text)]

\* Variant: no entry of a list is passed over.
SkipsEntryNever(cls) == FALSE

\* if (children[k].classList.contains("toctree-l3")) { continue; }
SkipsEntry(cls) == cls = "toctree-l3"

\* addSections on an entry of a list matched by ".toctree-l1 ul" that is not
\* passed over: the entries of its first nested list get an
\* under-Section-number, then the entry gets a Section-number.
DecorateSection(sec) ==
    Decorate([sec EXCEPT !.subs = [n \in DOMAIN sec.subs |->
                                      Decorate(sec.subs[n], "under-Section-number")]],
             "Section-number")

\* addSections on the second-level list of a chapter: its entries are
\* li.toctree-l2.
AddSectionsSecondLevel(ch) ==
    [ch EXCEPT !.sections = [k \in DOMAIN ch.sections |->
                                IF SkipsEntry("toctree-l2") THEN ch.sections[k]
                                ELSE DecorateSection(ch.sections[k])]]

\* addSections on the third-level lists of a chapter, which ".toctree-l1 ul"
\* matches as well: their entries are li.toctree-l3 and have no nested list.
AddSectionsThirdLevel(ch) ==
    LET visit(sec) ==
            [sec EXCEPT !.subs = [n \in DOMAIN sec.subs |->
                                     IF SkipsEntry("toctree-l3") THEN sec.subs[n]
                                     ELSE Decorate(sec.subs[n], "Section-number")]]
    IN  [ch EXCEPT !.sections = [k \in DOMAIN ch.sections |-> visit(ch.sections[k])]]

\* addSections(document.querySelectorAll(".toctree-l1 ul"))
AddSections(chs) ==
    [i \in DOMAIN chs |-> AddSectionsThirdLevel(AddSectionsSecondLevel(chs[i]))]

\* addChapters(document.querySelectorAll("div.toctree-wrapper .item .toctree-l1")):
\* the selector matches the chapters that are wrapped in an item container.
AddChapters(chs, wrapped) ==
    [i \in DOMAIN chs |-> IF wrapped THEN AddChapterNumber(chs[i]) ELSE chs[i]]

RECURSIVE Digits(_)
\* the decimal digits of n >= 0
Digits(n) ==
    LET d == <<"0", "1", "2", "3", "4", "5", "6", "7", "8", "9">>[(n % 10) + 1]
    IN  IF n < 10 THEN <<d>> ELSE Append(Digits(n \div 10), d)

\* The link text "<n>. <title>" of a chapter, as the table of contents is
\* generated.
ChapterText(n, title) == Digits(n) \o <<".", " ">> \o title

\* The link text "<number> <name>" of a section.
SectionText(number, name) == number \o <<" ">> \o name

\* A page entry before the script has run.
Entry(text) == [text |-> text, numbers |-> <<>>]

\* A chapter with its link text and its second- and third-level entries.
Chapter(text, sections) == [text |-> text, numbers |-> <<>>, sections |-> sections]

Section(text, subs) == [text |-> text, numbers |-> <<>>, subs |-> subs]

\* Chapter i of a plain page: "i. T" with the section "i.1. S" and under it
\* "i.1.1. U".
PlainChapter(i) ==
    Chapter(ChapterText(i, <<"T">>),
            <<Section(SectionText(Digits(i) \o <<".", "1", ".">>, <<"S">>),
                      <<Entry(SectionText(Digits(i) \o <<".", "1", ".", "1", ".">>,
                                          <<"U">>))>>)>>)

\* The page as it is served, with the given chapters and item heights.
ParsedPage(chs, hs) ==
    [pc              |-> "parsed",
     heights         |-> hs,
     wrapped         |-> FALSE,
     served          |-> chs,
     chapters        |-> chs,
     order           |-> <<>>,
     spans           |-> [i \in DOMAIN hs |-> 0],
     onload          |-> "null",
     resize_listener |-> FALSE,
     log             |-> {}]

\* Everything but the page.
NoRun ==
    /\ M = 1
    /\ n_folds = 1
    /\ n_cluster_vars = 1
    /\ est = EstIdle
    /\ reps = RepsIdle
    /\ plots = PlotsIdle
    /\ nb = NbIdle
    /\ pc = "new"
    /\ I_part = <<>>
    /\ J_part = <<>>
    /\ smpls_cluster = <<>>
    /\ smpls = <<>>
    /\ stage = <<>>
    /\ fit_on = <<>>
    /\ eval_on = <<>>
    /\ eta_used = <<>>
    /\ aggregated = FALSE

InitToc ==
    /\ N \in 1..MaxItems
    /\ \E hs \in [1..N -> HeightValues] :
          toc = ParsedPage([i \in 1..N |-> PlainChapter(i)], hs)
    /\ NoRun

\* resizeAllGridItems(): every item gets the span of its current height.
ResizedSpans(hs) == [i \in DOMAIN hs |-> RowSpan(hs[i])]

\* One statement of the script, run while event ev is handled.  A statement
\* window.onload = f(...) calls f and assigns what the call returned.
Step(t, name, ev) ==
    LET called == [t EXCEPT
                     !.log = @ \cup {<<name, ev>>},
                     !.order = IF ev = "ready" THEN Append(@, name) ELSE @,
                     !.onload = IF ev = "ready"
                                THEN OnloadAfterAssigning(name, CallResult(name))
                                ELSE @]
    IN  CASE name = "wrap" ->
               [t EXCEPT !.wrapped = TRUE, !.order = Append(@, name)]
          [] name = "addChapters" ->
               [called EXCEPT !.chapters = AddChapters(@, t.wrapped)]
          [] name = "addSections" ->
               [called EXCEPT !.chapters = AddSections(@)]
          [] name = "resizeAllGridItems" ->
               [called EXCEPT !.spans = IF t.wrapped THEN ResizedSpans(t.heights)
                                        ELSE @]
          [] name = "addEventListener" ->
               [t EXCEPT !.resize_listener = TRUE]

RECURSIVE RunSteps(_, _, _)
RunSteps(t, names, ev) ==
    IF names = <<>> THEN t
    ELSE RunSteps(Step(t, Head(names), ev), Tail(names), ev)

\* Variant: the chapters are numbered before they are wrapped.
ReadyStepsNumberFirst ==
    <<"addChapters", "wrap", "addSections", "resizeAllGridItems",
      "addEventListener">>

\* The statements of the $(document).ready callback, in the order of the
\* script: wrap the chapters and their headers, then the three window.onload
\* statements, then the resize listener.
ReadySteps ==
    <<"wrap", "addChapters", "addSections", "resizeAllGridItems",
      "addEventListener">>

\* The $(document).ready callback.
Ready ==
    /\ toc.pc = "parsed"
    /\ toc' = [RunSteps(toc, ReadySteps, "ready") EXCEPT !.pc = "ready"]
    /\ UNCHANGED <<params, pc, I_part, J_part, smpls_cluster, smpls, stage,
                   fit_on, eval_on, eta_used, aggregated, est, reps,
                   plots, nb>>

\* The window load event: the handler in window.onload runs, if there is one.
Load ==
    /\ toc.pc = "ready"
    /\ toc' = [(IF toc.onload = "null" THEN toc
                ELSE Step(toc, toc.onload, "load")) EXCEPT !.pc = "loaded"]
    /\ UNCHANGED <<params, pc, I_part, J_part, smpls_cluster, smpls, stage,
                   fit_on, eval_on, eta_used, aggregated, est, reps,
                   plots, nb>>

\* A window resize event: the layout gives the items new heights (or leaves
\* them as they are) and the listener resizeAllGridItems runs.
Resize ==
    /\ toc.pc \in {"ready", "loaded"}
    /\ toc.resize_listener
    /\ \E hs \in [1..N -> HeightValues] :
          toc' = Step([toc EXCEPT !.heights = hs], "resizeAllGridItems", "resize")
    /\ UNCHANGED <<params, pc, I_part, J_part, smpls_cluster, smpls, stage,
                   fit_on, eval_on, eta_used, aggregated, est, reps,
                   plots, nb>>

NextToc ==
    \/ Ready
    \/ Load
    \/ Resize

SpecToc == InitToc /\ [][NextToc]_vars

\* Bound of the chapter numbers of the pages with one chapter.
MaxChapterNumber == 100

\* Chapter titles: one word, two words, and titles with a period in the
\* middle, at the end and twice.
Titles ==
    {<<"A">>, <<"A", " ", "b">>, <<"v", "1", ".", "0">>, <<"A", "b", ".">>,
     <<"A", ".", "b", ".", "c">>}

\* A page with one chapter "<n>. <title>" without sections.
InitTocChapter ==
    /\ N = 1
    /\ \E n \in 1..MaxChapterNumber, title \in Titles :
          toc = ParsedPage(<<Chapter(ChapterText(n, title), <<>>)>>,
                           [i \in 1..N |-> 0])
    /\ NoRun

SpecTocChapter == InitTocChapter /\ [][NextToc]_vars

\* Bounds of the pages with sections: second-level entries of the chapter and
\* third-level entries of a second-level entry.
MaxSections == 2
MaxSubs == 2

\* Section names: one word and two words.
SectionNames == {<<"S">>, <<"S", " ", "t">>}

\* Section s of chapter 1 with n_subs third-level entries, all named name.
NumberedSection(s, n_subs, name) ==
    Section(SectionText(<<"1", ".">> \o Digits(s) \o <<".">>, name),
            [u \in 1..n_subs |->
                Entry(SectionText(<<"1", ".">> \o Digits(s) \o <<".">>
                                     \o Digits(u) \o <<".">>, name))])

\* A page with one chapter and its numbered second- and third-level entries.
InitTocSections ==
    /\ N = 1
    /\ \E n_sec \in 0..MaxSections, name \in SectionNames :
       \E n_subs \in [1..n_sec -> 0..MaxSubs] :
          toc = ParsedPage(<<Chapter(ChapterText(1, <<"T">>),
                                     [k \in 1..n_sec |->
                                         NumberedSection(k, n_subs[k], name)])>>,
                           [i \in 1..N |-> 0])
    /\ NoRun

SpecTocSections == InitTocSections /\ [][NextToc]_vars

(***************************************************************************)
(* The plots of the sample splitting: plt_smpls and plt_smpls_cluster      *)
(***************************************************************************)

\* Bounds of the plotted sample splittings.
MaxPlotN == 3
MaxPlotM == 3
MaxPlotK == 3

\* np.zeros([rows, columns]) / matrix(0, nrow, ncol): cells by <<row, column>>
Zeros(rows, columns) == [x \in rows \X columns |-> 0]

\* Variant: the value goes to the whole column.
SetCellsWholeColumn(df, rows, col, v) ==
    [x \in DOMAIN df |-> IF x[2] = col THEN v ELSE df[x]]

\* df.loc[rows, col] = v  /  df[rows, col] = v
SetCells(df, rows, col, v) ==
    [x \in DOMAIN df |-> IF x[1] \in rows /\ x[2] = col THEN v ELSE df[x]]

\* The loop of plt_smpls from fold i on: the column of fold i is i + base
\* (base 0 for enumerate(smpls), base 1 for i_fold in 1:n_folds).
RECURSIVE AssignFolds(_, _, _, _)
AssignFolds(df, sm, i, base) ==
    IF i \notin DOMAIN sm
    THEN df
    ELSE AssignFolds(SetCells(SetCells(df, sm[i].train_ids, i + base, -1),
                              sm[i].test_ids, i + base, 1),
                     sm, i + 1, base)

\* Python plt_smpls(smpls, n_folds_per_cluster): the N*M rows are the
\* observations, the columns are numbered from 0.
plt_smpls(sm, n_folds_per_cluster) ==
    AssignFolds(Zeros(Obs(N, M), 0..(n_folds_per_cluster * n_folds_per_cluster - 1)),
                sm, 0, 0)

\* R plt_smpls(smpls, n_folds): the columns are numbered from 1 and
\* smpls$train_ids[[i_fold]] is the fold at position i_fold - 1.
R_plt_smpls(sm, folds) ==
    AssignFolds(Zeros(Obs(N, M), 1..folds), sm, 0, 1)

\* plt_smpls(dml_pliv_obj.smpls[0], dml_pliv_obj._n_folds_per_cluster)
PltSmpls ==
    /\ pc = "constructed"
    /\ n_cluster_vars = 2
    /\ plots' = [pc |-> "plt_smpls", lang |-> "py",
                 df |-> plt_smpls(smpls, n_folds),
                 columns |-> 0..(n_folds * n_folds - 1)]
    /\ UNCHANGED <<params, pc, I_part, J_part, smpls_cluster, smpls, stage,
                   fit_on, eval_on, eta_used, aggregated, est, reps, toc, nb>>

\* plt_smpls(dml_pliv_obj$smpls[[1]], dml_pliv_obj$n_folds): the object's
\* n_folds is the number of folds of the splitting.
R_PltSmpls ==
    /\ pc = "constructed"
    /\ n_cluster_vars = 2
    /\ LET folds == NumSplits(n_folds, n_cluster_vars) IN
       plots' = [pc |-> "plt_smpls", lang |-> "R",
                 df |-> R_plt_smpls(smpls, folds),
                 columns |-> 1..folds]
    /\ UNCHANGED <<params, pc, I_part, J_part, smpls_cluster, smpls, stage,
                   fit_on, eval_on, eta_used, aggregated, est, reps, toc, nb>>

\* Variant: the labels of the R helper computed from i_fold itself.
R_FoldKFromOne(i_fold, n_folds_per_cluster) == (i_fold \div n_folds_per_cluster) + 1

\* R plt_smpls_cluster: k = ((i_fold-1) %/% n_folds_per_cluster)+1
R_FoldK(i_fold, n_folds_per_cluster) == ((i_fold - 1) \div n_folds_per_cluster) + 1

\* R plt_smpls_cluster: l = (i_fold-1) %% n_folds_per_cluster + 1
R_FoldL(i_fold, n_folds_per_cluster) == ((i_fold - 1) % n_folds_per_cluster) + 1

\* The cells ids[1] x ids[2] of the matrix of one fold.
ClusterCells(ids) == ids[1] \X ids[2]

\* Python plt_smpls_cluster, one subplot: the frame over range(N) x range(M)
\* with -1 on the nuisance clusters and then 1 on the score clusters.
ClusterFrame(fold) ==
    [x \in (1..N) \X (1..M) |->
        IF x \in ClusterCells(fold.test_ids) THEN 1
        ELSE IF x \in ClusterCells(fold.train_ids) THEN -1
        ELSE 0]

\* plt_smpls_cluster(dml_pliv_obj.smpls_cluster[0], dml_pliv_obj._n_folds_per_cluster)
PltSmplsCluster ==
    /\ pc = "constructed"
    /\ n_cluster_vars = 2
    /\ plots' = [pc |-> "plt_smpls_cluster", lang |-> "py",
                 mats |-> [f \in DOMAIN smpls_cluster |-> ClusterFrame(smpls_cluster[f])],
                 labels |-> [f \in DOMAIN smpls_cluster |->
                                <<FoldK(f, n_folds, n_cluster_vars),
                                  FoldL(f, n_folds, n_cluster_vars)>>]]
    /\ UNCHANGED <<params, pc, I_part, J_part, smpls_cluster, smpls, stage,
                   fit_on, eval_on, eta_used, aggregated, est, reps, toc, nb>>

\* Variant: one row per first-dimension id, one column per second-dimension id.
R_MatDimsRowsFirst == [nrow |-> N, ncol |-> M]

\* R plt_smpls_cluster: mat = matrix(0, nrow = M, ncol = N)
R_MatDims == [nrow |-> M, ncol |-> N]

\* The cells mat[k, l] the two double loops of one fold write, k running over
\* the ids of the first cluster variable and l over those of the second.
R_Writes(fold) == ClusterCells(fold.train_ids) \cup ClusterCells(fold.test_ids)

\* mat[k, l] = v raises "subscript out of bounds" outside the matrix.
R_OutOfBounds(cell, dims) ==
    ~(cell[1] \in 1..dims.nrow /\ cell[2] \in 1..dims.ncol)

\* df$id = 1:N on a data frame with nrows rows: a shorter value is recycled
\* when nrows is a multiple of its length, anything else is an error.
R_IdColumnFits(len, nrows) == len <= nrows /\ nrows % len = 0

\* One pass of the loop body fails when a write leaves the matrix or the id
\* column does not fit the frame.
R_FoldFails(fold, dims) ==
    \/ \E cell \in R_Writes(fold) : R_OutOfBounds(cell, dims)
    \/ ~R_IdColumnFits(N, dims.nrow)

\* The first fold (i_fold - 1) whose pass fails, or -1.
R_FirstFailing(sc, dims) ==
    LET failing == {f \in DOMAIN sc : R_FoldFails(sc[f], dims)}
    IN  IF failing = {} THEN -1
        ELSE CHOOSE f \in failing : \A g \in failing : f <= g

\* plots = plt_smpls_cluster(dml_pliv_obj$smpls_cluster[[1]],
\*                           dml_pliv_obj$n_folds, sqrt(dml_pliv_obj$n_folds))
\* The passes up to the first failing one are recorded, by i_fold.
R_PltSmplsCluster ==
    /\ pc = "constructed"
    /\ n_cluster_vars = 2
    /\ LET dims  == R_MatDims
           stop  == R_FirstFailing(smpls_cluster, dims)
           folds == NumSplits(n_folds, n_cluster_vars)
           done  == IF stop = -1 THEN 1..folds ELSE 1..(stop + 1)
       IN  plots' = [pc |-> IF stop = -1 THEN "plt_smpls_cluster" ELSE "error",
                     lang |-> "R",
                     nrow |-> dims.nrow,
                     ncol |-> dims.ncol,
                     id |-> [i \in 1..N |-> i],
                     writes |-> [i_fold \in done |-> R_Writes(smpls_cluster[i_fold - 1])],
                     labels |-> [i_fold \in done |->
                                    <<R_FoldK(i_fold, n_folds),
                                      R_FoldL(i_fold, n_folds)>>]]
    /\ UNCHANGED <<params, pc, I_part, J_part, smpls_cluster, smpls, stage,
                   fit_on, eval_on, eta_used, aggregated, est, reps, toc, nb>>

\* A two-way clustered object about to be constructed and plotted.
InitPlot ==
    /\ N \in 1..MaxPlotN
    /\ M \in 1..MaxPlotM
    /\ n_folds \in 1..MaxPlotK
    /\ n_cluster_vars = 2
    /\ est = EstIdle
    /\ reps = RepsIdle
    /\ toc = TocIdle
    /\ plots = PlotsIdle
    /\ nb = NbIdle
    /\ pc = "new"
    /\ I_part = <<>>
    /\ J_part = <<>>
    /\ smpls_cluster = <<>>
    /\ smpls = <<>>
    /\ stage = <<>>
    /\ fit_on = <<>>
    /\ eval_on = <<>>
    /\ eta_used = <<>>
    /\ aggregated = FALSE

NextPlot ==
    \/ NextSplit
    \/ PltSmpls
    \/ R_PltSmpls
    \/ PltSmplsCluster
    \/ R_PltSmplsCluster

SpecPlot == InitPlot /\ [][NextPlot]_vars

(***************************************************************************)
(* The pipeline notebook: its DoubleMLPLR objects, cell by cell            *)
(***************************************************************************)

\* Bound of the values an estimate is drawn from.
MaxEstimate == 2

\* The statements on the first DoubleMLPLR objects, in the order of the cells.
NotebookUntilTuning ==
    << <<"new", "obj_dml_plr_sim">>,
       <<"fit", "obj_dml_plr_sim">>,
       <<"print", "obj_dml_plr_sim">>,
       <<"new", "obj_dml_plr_bonus">>,
       <<"fit", "obj_dml_plr_bonus">>,
       <<"print", "obj_dml_plr_bonus">>,
       <<"new", "obj_dml_plr_sim_pipe">>,
       <<"fit", "obj_dml_plr_sim_pipe">>,
       <<"print", "obj_dml_plr_sim_pipe">>,
       <<"new", "obj_dml_plr_bonus_pipe">>,
       <<"fit", "obj_dml_plr_bonus_pipe">>,
       <<"print", "obj_dml_plr_bonus_pipe">>,
       <<"new", "obj_dml_plr_sim_pipe_ensemble">>,
       <<"fit", "obj_dml_plr_sim_pipe_ensemble">>,
       <<"print", "obj_dml_plr_sim_pipe_ensemble">>,
       <<"new", "obj_dml_plr_bonus_pipe_ensemble">>,
       <<"fit", "obj_dml_plr_bonus_pipe_ensemble">>,
       <<"print", "obj_dml_plr_bonus_pipe_ensemble">>,
       <<"new", "obj_dml_plr_bonus_pipe">>,
       <<"fit", "obj_dml_plr_bonus_pipe">>,
       <<"print", "obj_dml_plr_bonus_pipe">>,
       <<"new", "obj_dml_plr_bonus_pipe2">>,
       <<"fit", "obj_dml_plr_bonus_pipe2">>,
       <<"print", "obj_dml_plr_bonus_pipe2">>,
       <<"new", "obj_dml_plr_bonus_pipe3">>,
       <<"fit", "obj_dml_plr_bonus_pipe3">>,
       <<"print", "obj_dml_plr_bonus_pipe3">>,
       <<"new", "obj_dml_plr_sim_pipe_tune">>,
       <<"tune", "obj_dml_plr_sim_pipe_tune">> >>

\* Variant: the last cell fits and prints the object that was tuned.
NotebookFitsTuned ==
    NotebookUntilTuning \o << <<"fit", "obj_dml_plr_sim_pipe_tune">>,
                              <<"print", "obj_dml_plr_sim_pipe_tune">> >>

\* The statements on DoubleMLPLR objects of the whole notebook: the cell after
\* the tuning is obj_dml_plr_sim_pipe$fit(); print(obj_dml_plr_sim_pipe).
Notebook ==
    NotebookUntilTuning \o << <<"fit", "obj_dml_plr_sim_pipe">>,
                              <<"print", "obj_dml_plr_sim_pipe">> >>

ObjectNames == {Notebook[i][2] : i \in DOMAIN Notebook}

\* A name no object has been assigned to.
Unbound == [created_at |-> 0, fitted |-> FALSE, tuned |-> FALSE, coef |-> 0]

\* The kernel before the first cell.
NbStart == [pc |-> "running", next |-> 1,
            objs |-> [n \in ObjectNames |-> Unbound],
            out |-> <<>>]

\* The statement about to run.
Statement == Notebook[nb.next]

\* After a statement: on to the next one, or the end of the notebook.
Advance(t) ==
    [t EXCEPT !.next = @ + 1,
              !.pc = IF t.next = Len(Notebook) THEN "done" ELSE @]

NbUnchanged ==
    UNCHANGED <<params, pc, I_part, J_part, smpls_cluster, smpls, stage,
                fit_on, eval_on, eta_used, aggregated, est, reps, toc, plots>>

\* name = DoubleMLPLR$new(...): a new, unfitted object under that name
NbNew ==
    /\ nb.pc = "running"
    /\ Statement[1] = "new"
    /\ nb' = Advance([nb EXCEPT !.objs[Statement[2]] =
                         [Unbound EXCEPT !.created_at = nb.next]])
    /\ NbUnchanged

\* name$fit(): the object gets its estimate
NbFit ==
    /\ nb.pc = "running"
    /\ Statement[1] = "fit"
    /\ nb.objs[Statement[2]].created_at > 0
    /\ \E c \in 1..MaxEstimate :
          nb' = Advance([nb EXCEPT !.objs[Statement[2]].fitted = TRUE,
                                   !.objs[Statement[2]].coef = c])
    /\ NbUnchanged

\* name$tune(...): the object gets tuned parameters
NbTune ==
    /\ nb.pc = "running"
    /\ Statement[1] = "tune"
    /\ nb.objs[Statement[2]].created_at > 0
    /\ nb' = Advance([nb EXCEPT !.objs[Statement[2]].tuned = TRUE])
    /\ NbUnchanged

\* print(name): the object as it is goes to the output
NbPrint ==
    /\ nb.pc = "running"
    /\ Statement[1] = "print"
    /\ nb.objs[Statement[2]].created_at > 0
    /\ nb' = Advance([nb EXCEPT !.out =
                         Append(@, [name |-> Statement[2],
                                    at |-> nb.next,
                                    object |-> nb.objs[Statement[2]]])])
    /\ NbUnchanged

\* The kernel about to run the notebook from its first cell.
InitNb ==
    /\ N = 1
    /\ M = 1
    /\ n_folds = 1
    /\ n_cluster_vars = 1
    /\ est = EstIdle
    /\ reps = RepsIdle
    /\ toc = TocIdle
    /\ plots = PlotsIdle
    /\ nb = NbStart
    /\ pc = "new"
    /\ I_part = <<>>
    /\ J_part = <<>>
    /\ smpls_cluster = <<>>
    /\ smpls = <<>>
    /\ stage = <<>>
    /\ fit_on = <<>>
    /\ eval_on = <<>>
    /\ eta_used = <<>>
    /\ aggregated = FALSE

NextNb ==
    \/ NbNew
    \/ NbFit
    \/ NbTune
    \/ NbPrint

SpecNb == InitNb /\ [][NextNb]_vars

(***************************************************************************)
(* Properties                                                              *)
(***************************************************************************)

\* The subsets the splitter returned, read back from smpls_cluster: I_k is the
\* first-dimension score ids of fold (k, 1), J_l the second-dimension score
\* ids of fold (1, l).
ReturnedI(k) ==
    smpls_cluster[IF n_cluster_vars = 2 THEN (k - 1) * n_folds ELSE k - 1].test_ids[1]

ReturnedJ(l) == smpls_cluster[l - 1].test_ids[2]

\* C1: in every fold, no observation of the nuisance sample shares its first
\* or its second cluster id with an observation of the score sample, and no
\* cluster id of a dimension is both a nuisance id and a score id of the fold.
C1_ClusterSeparation ==
    \A f \in DOMAIN smpls :
        /\ \A o \in smpls[f].train_ids : \A p \in smpls[f].test_ids :
              \A d \in 1..n_cluster_vars : o[d] # p[d]
        /\ \A d \in 1..n_cluster_vars :
              smpls_cluster[f].train_ids[d] \cap smpls_cluster[f].test_ids[d] = {}

C1_Witness ==
    /\ pc = "constructed"
    /\ n_cluster_vars = 2
    /\ n_folds = 2
    /\ N = 3
    /\ \E f \in DOMAIN smpls :
          /\ Cardinality(smpls[f].train_ids) >= 2
          /\ Cardinality(smpls[f].test_ids) >= 2

\* C2: the returned subsets I_1..I_K are pairwise disjoint and cover [N]
\* (every id of [N] lies in exactly one I_k), every fold uses one of them, and
\* the same holds for J_1..J_K over [M].
C2_PartitionExactlyOnce ==
    pc = "constructed" =>
        /\ \A i \in 1..N : Cardinality({k \in 1..n_folds : i \in ReturnedI(k)}) = 1
        /\ UNION {ReturnedI(k) : k \in 1..n_folds} = 1..N
        /\ \A f \in DOMAIN smpls_cluster :
              \E k \in 1..n_folds : smpls_cluster[f].test_ids[1] = ReturnedI(k)
        /\ n_cluster_vars = 2 =>
              /\ \A j \in 1..M : Cardinality({l \in 1..n_folds : j \in ReturnedJ(l)}) = 1
              /\ UNION {ReturnedJ(l) : l \in 1..n_folds} = 1..M
              /\ \A f \in DOMAIN smpls_cluster :
                    \E l \in 1..n_folds : smpls_cluster[f].test_ids[2] = ReturnedJ(l)

C2_Witness ==
    /\ pc = "constructed"
    /\ n_cluster_vars = 2
    /\ n_folds = 2
    /\ N = 3
    /\ M = 3
    /\ Cardinality(ReturnedI(1)) = 2
    /\ Cardinality(ReturnedJ(2)) = 2

\* C3: the splitter produces exactly K^2 folds for two-way clustering and
\* exactly K folds for one-way clustering.
C3_FoldCount ==
    pc = "constructed" =>
        /\ Cardinality(DOMAIN smpls) =
              (IF n_cluster_vars = 2 THEN n_folds * n_folds ELSE n_folds)
        /\ DOMAIN smpls_cluster = DOMAIN smpls

C3_Witness ==
    /\ pc = "constructed"
    /\ n_cluster_vars = 1
    /\ n_folds = 3
    /\ Cardinality(DOMAIN smpls) = 3

\* C4: when K exceeds the number of cluster ids of a clustered dimension, the
\* only outcome of the construction is the configuration error: the error is
\* the step that can be taken, and no sample splitting is ever returned.
C4_DegenerateIsConfigError ==
    (n_folds > N \/ (n_cluster_vars = 2 /\ n_folds > M)) =>
        /\ pc \in {"new", "config_error"}
        /\ pc = "new" => ENABLED ConfigError
        /\ smpls_cluster = <<>>
        /\ smpls = <<>>

C4_Witness ==
    /\ pc = "config_error"
    /\ n_cluster_vars = 2
    /\ n_folds > M
    /\ n_folds <= N

\* C5: when the configuration error is raised no fold's nuisance fit has
\* begun, and none begins afterwards: the error state is final.
C5_ErrorBeforeFitting ==
    /\ [](pc = "config_error" => (stage = <<>> /\ fit_on = <<>> /\ ~aggregated))
    /\ [][pc = "config_error" =>
             (pc' = "config_error" /\ stage' = stage /\ fit_on' = fit_on)]_vars

C5_Witness ==
    /\ pc = "config_error"
    /\ n_folds > N

\* C6: for a valid K every returned subset I_k and J_l is non-empty.
C6_NonEmptySubsets ==
    \A f \in DOMAIN smpls_cluster :
        \A d \in 1..n_cluster_vars : smpls_cluster[f].test_ids[d] # {}

C6_Witness ==
    /\ pc = "constructed"
    /\ n_cluster_vars = 2
    /\ n_folds = 3
    /\ N = 3
    /\ M = 3

\* C7: for every (k, l) the fold (k, l), at position (k-1)*K + (l-1), has the
\* score sample I_k x J_l and the nuisance sample ([N] \ I_k) x ([M] \ J_l),
\* with I_k and J_l taken from the two drawn partition families.
C7_FoldSubsets ==
    (pc = "constructed" /\ n_cluster_vars = 2) =>
        \A k \in 1..n_folds : \A l \in 1..n_folds :
            LET f  == (k - 1) * n_folds + (l - 1)
                Ik == {i \in 1..N : I_part[i] = k}
                Jl == {j \in 1..M : J_part[j] = l}
            IN  /\ f \in DOMAIN smpls
                /\ smpls[f].test_ids = Ik \X Jl
                /\ smpls[f].train_ids = ((1..N) \ Ik) \X ((1..M) \ Jl)
                /\ smpls_cluster[f].test_ids = <<Ik, Jl>>
                /\ smpls_cluster[f].train_ids = <<(1..N) \ Ik, (1..M) \ Jl>>

C7_Witness ==
    /\ pc = "constructed"
    /\ n_cluster_vars = 2
    /\ n_folds = 3
    /\ N = 3
    /\ M = 3
    /\ smpls[5].test_ids = {<<i, j>> \in Obs(N, M) : I_part[i] = 2 /\ J_part[j] = 3}

\* C8 as stated: a fold's nuisance estimate is fit only on the fold's nuisance
\* sample, is used by that fold alone, and is never evaluated on an
\* observation of its own fold's score sample.
C8_NeverEvaluatedOnOwnScoreSample ==
    \A f \in DOMAIN stage :
        /\ fit_on[f] \subseteq smpls[f].train_ids
        /\ eta_used[f] \subseteq {f}
        /\ eval_on[f] \cap smpls[f].test_ids = {}

\* C8, amended: a fold's nuisance estimate is fit only on the fold's nuisance
\* sample, is used by that fold alone, and is evaluated exactly on its own
\* fold's score sample: never on an observation it was fit on, nor on one
\* that shares a cluster id with an observation it was fit on.
C8_FitOnNuisanceEvalOnScore ==
    \A f \in DOMAIN stage :
        /\ fit_on[f] = (IF stage[f] = "pending" THEN {} ELSE smpls[f].train_ids)
        /\ eta_used[f] \subseteq {f}
        /\ eval_on[f] = (IF stage[f] = "scored" THEN smpls[f].test_ids ELSE {})
        /\ eval_on[f] \cap fit_on[f] = {}
        /\ \A o \in eval_on[f] : \A p \in fit_on[f] :
              \A d \in 1..n_cluster_vars : o[d] # p[d]

C8_Witness ==
    \E f \in DOMAIN stage :
        /\ stage[f] = "scored"
        /\ n_cluster_vars = 2
        /\ eval_on[f] # {}
        /\ fit_on[f] # {}
        /\ eta_used[f] = {f}

\* The two-way rule applied to a pair of partition families: fold (k, l) has
\* the score sample I_k x J_l and the nuisance sample ([N] \ I_k) x ([M] \ J_l).
TwoWayRule(pI, pJ, k, l) ==
    [train_ids |-> {o \in Obs(N, M) : pI[o[1]] # k /\ pJ[o[2]] # l},
     test_ids  |-> {o \in Obs(N, M) : pI[o[1]] = k /\ pJ[o[2]] = l}]

\* The single trivial partition of the second dimension: J_1 = [M].
TrivialJ == [j \in 1..M |-> 1]

C10_AggregateAfterAllFolds ==
    (aggregated \/ pc = "done") =>
        /\ Cardinality(DOMAIN stage) =
              (IF n_cluster_vars = 2 THEN n_folds * n_folds ELSE n_folds)
        /\ \A f \in DOMAIN stage :
              /\ stage[f] = "scored"
              /\ eval_on[f] = smpls[f].test_ids

C10_Witness ==
    /\ aggregated
    /\ n_cluster_vars = 2
    /\ n_folds = 2
    /\ Cardinality(DOMAIN stage) = 4

\* The terms c[f], f in S, added up in ascending order of f.
RECURSIVE AscendingSum(_, _)
AscendingSum(S, c) ==
    IF S = {} THEN <<0, 1>>
    ELSE LET mx == CHOOSE x \in S : \A y \in S : y <= x
         IN  RatAdd(AscendingSum(S \ {mx}, c), c[mx])

\* C11: the running sums of the per-fold contributions, and with them the
\* aggregated J, Gamma and sigma^2, are the same for every order in which the
\* folds are combined: after any sequence of additions they equal the sums
\* taken in ascending fold order.
C11_OrderIndependentAggregation ==
    (est.pc \in {"summing", "done"} /\ n_cluster_vars = 2) =>
        /\ est.acc_J = AscendingSum(est.added, est.fold_J)
        /\ est.acc_G = AscendingSum(est.added, est.fold_G)
        /\ est.pc = "done" =>
              LET K2 == <<n_folds * n_folds, 1>>
                  J == RatDiv(AscendingSum(DOMAIN est.fold_J, est.fold_J), K2)
                  G == RatDiv(AscendingSum(DOMAIN est.fold_G, est.fold_G), K2)
              IN  /\ est.J_hat = J
                  /\ est.Gamma_hat = G
                  /\ est.sigma2 = RatDiv(RatDiv(G, J), J)

C11_Witness ==
    /\ est.pc = "done"
    /\ Cardinality({est.fold_J[f] : f \in est.added}) >= 3
    /\ Cardinality({est.fold_G[f] : f \in est.added}) >= 3
    /\ est.sigma2[1] > 0

\* C15: the variance estimator never divides by zero: no fold size and no
\* K^2 it divided by was zero, every completed computation had |I_k| > 0 and
\* |J_l| > 0 for all its folds, and with a K too large for N or M the run ends
\* in the configuration error and nothing is computed.
C15_NoDivisionByZeroFoldSize ==
    /\ est.pc # "idle" => 0 \notin est.divisors
    /\ est.pc = "done" =>
          /\ \A f \in DOMAIN smpls_cluster :
                /\ Cardinality(smpls_cluster[f].test_ids[1]) > 0
                /\ Cardinality(smpls_cluster[f].test_ids[2]) > 0
                /\ est.fold_J[f][2] > 0
                /\ est.fold_G[f][2] > 0
          /\ est.J_hat[2] > 0
          /\ est.Gamma_hat[2] > 0
    /\ (n_folds > N \/ (n_cluster_vars = 2 /\ n_folds > M)) =>
          /\ est.pc = "idle"
          /\ pc \in {"new", "config_error"}
    /\ pc = "config_error" => est.pc = "idle"

C15_Witness ==
    /\ est.pc = "done"
    /\ Cardinality(est.divisors) >= 3
    /\ \E f \in est.added : Cardinality(smpls_cluster[f].test_ids[1]) = 1

\* The pairs of observations of fold f's score sample with the same first, and
\* with the same second, cluster index.
SameFirstIndex(f) ==
    {pr \in smpls[f].test_ids \X smpls[f].test_ids : pr[1][1] = pr[2][1]}

SameSecondIndex(f) ==
    {pr \in smpls[f].test_ids \X smpls[f].test_ids : pr[1][2] = pr[2][2]}

\* C16: the product psi(W_ij) psi(W_i'j') is a summand of fold (k,l)'s term of
\* Gamma exactly when both observations lie in the fold's score sample and
\* share the first or the second cluster index, and the fold's term is the
\* scaled sum of exactly these products.
C16_GammaPairsShareAClusterIndex ==
    (pc = "constructed" /\ n_cluster_vars = 2) =>
        \A f \in DOMAIN smpls_cluster :
            /\ FirstSumPairs(FoldI(f), FoldJ(f))
                  \cup SecondSumPairs(FoldI(f), FoldJ(f))
                  = {pr \in Obs(N, M) \X Obs(N, M) :
                        /\ pr[1] \in smpls[f].test_ids
                        /\ pr[2] \in smpls[f].test_ids
                        /\ (pr[1][1] = pr[2][1] \/ pr[1][2] = pr[2][2])}
            /\ (est.pc # "idle" /\ f \in est.added) =>
                  LET T == smpls[f].test_ids
                      prod == [pr \in T \X T |-> est.psi[pr[1]] * est.psi[pr[2]]]
                      ni == Cardinality(smpls_cluster[f].test_ids[1])
                      nj == Cardinality(smpls_cluster[f].test_ids[2])
                  IN  est.fold_G[f] =
                          Rat((IF ni <= nj THEN ni ELSE nj)
                                 * (SumOver(SameFirstIndex(f), prod)
                                    + SumOver(SameSecondIndex(f), prod)),
                              (ni * nj) * (ni * nj))

C16_Witness ==
    /\ est.pc = "done"
    /\ \E f \in est.added :
          /\ est.fold_G[f][1] # 0
          /\ \E o \in smpls[f].test_ids, p \in smpls[f].test_ids :
                /\ o[1] # p[1]
                /\ o[2] # p[2]
                /\ est.psi[o] * est.psi[p] # 0
          /\ \E o \in smpls[f].test_ids, p \in smpls[f].test_ids :
                /\ o[1] # p[1]
                /\ o[2] = p[2]
                /\ est.psi[o] * est.psi[p] # 0

RECURSIVE ProdOver(_, _)
\* product of g[x] over x in S
ProdOver(S, g) ==
    IF S = {} THEN 1
    ELSE LET x == CHOOSE y \in S : TRUE IN g[x] * ProdOver(S \ {x}, g)

\* C17: J is the unweighted average of the folds' own means of psi_a: each
\* fold's term is its sum of psi_a over I_k x J_l divided by |I_k||J_l|, and
\* K^2 J is the sum of these terms, each with the same weight whatever the
\* fold's size.
C17_JIsUnweightedAverageOfFoldMeans ==
    (est.pc \in {"summing", "done"} /\ n_cluster_vars = 2) =>
        /\ \A f \in est.added :
              est.fold_J[f][1] * Cardinality(smpls[f].test_ids)
                  = SumOver(smpls[f].test_ids, est.psi_a) * est.fold_J[f][2]
        /\ est.pc = "done" =>
              LET den == [f \in est.added |-> est.fold_J[f][2]]
                  D == ProdOver(est.added, den)
                  scaled == [f \in est.added |-> est.fold_J[f][1] * (D \div den[f])]
              IN  /\ est.added = 0..(n_folds * n_folds - 1)
                  /\ est.J_hat[1] * (n_folds * n_folds) * D
                         = est.J_hat[2] * SumOver(est.added, scaled)

C17_Witness ==
    /\ est.pc = "done"
    /\ \E f \in est.added, g \in est.added :
          Cardinality(smpls[f].test_ids) # Cardinality(smpls[g].test_ids)
    /\ est.J_hat[1] * (N * M) # est.J_hat[2] * SumOver(Obs(N, M), est.psi_a)

\* C18: the scaling constant of the confidence interval is the smaller of N
\* and M under two-way clustering and N under one-way clustering.
C18_ScalingConstant ==
    est.pc # "idle" =>
        /\ n_cluster_vars = 2 =>
              /\ est.C <= N
              /\ est.C <= M
              /\ est.C \in {N, M}
        /\ n_cluster_vars = 1 => est.C = N

C18_Witness ==
    /\ est.pc = "done"
    /\ n_cluster_vars = 2
    /\ M < N
    /\ est.C = M

\* What fold f holds once it has reached a stage: a function of the
\* splitting alone.
FoldResult(f, st) ==
    [fit_on   |-> IF st = "pending" THEN {} ELSE smpls[f].train_ids,
     eval_on  |-> IF st = "scored" THEN smpls[f].test_ids ELSE {},
     eta_used |-> IF st = "scored" THEN {f} ELSE {}]

\* C12: with the folds' fits and evaluations interleaved in every possible
\* way, a step of one fold writes that fold's entries only and leaves the
\* index partitions and the folds built from them unchanged, and what each
\* fold holds depends on its own stage and the splitting only, so the set of
\* per-fold results is the same for every interleaving.
C12_FitsShareNoMutableState ==
    /\ [](pc \in {"fitting", "done"} =>
             \A f \in DOMAIN stage :
                 [fit_on   |-> fit_on[f],
                  eval_on  |-> eval_on[f],
                  eta_used |-> eta_used[f]] = FoldResult(f, stage[f]))
    /\ [][(pc = "fitting" /\ pc' = "fitting") =>
             /\ <<I_part, J_part, smpls_cluster, smpls>>'
                    = <<I_part, J_part, smpls_cluster, smpls>>
             /\ Cardinality({g \in DOMAIN stage :
                                \/ stage'[g] # stage[g]
                                \/ fit_on'[g] # fit_on[g]
                                \/ eval_on'[g] # eval_on[g]
                                \/ eta_used'[g] # eta_used[g]}) <= 1]_vars

C12_Witness ==
    /\ pc = "fitting"
    /\ \E f \in DOMAIN stage, g \in DOMAIN stage, h \in DOMAIN stage :
          /\ stage[f] = "scored"
          /\ stage[g] = "fitted"
          /\ stage[h] = "pending"
          /\ g < f
          /\ fit_on[g] # fit_on[f]

\* The folds that score observation o, that train on it, and that leave it out.
ScoreFolds(o) == {f \in DOMAIN smpls : o \in smpls[f].test_ids}

NuisanceFolds(o) == {f \in DOMAIN smpls : o \in smpls[f].train_ids}

LeftOutFolds(o) == (DOMAIN smpls \ ScoreFolds(o)) \ NuisanceFolds(o)

\* C19: under two-way splitting, with fold (k,l) at position (k-1)K + (l-1),
\* every observation is scored by exactly one fold, is in the nuisance sample
\* of the (K-1)^2 folds that differ from it in both k and l, and is left out of
\* the 2(K-1) folds that share exactly one of k, l with it; for K = 3 an
\* observation scored by fold 7 trains folds 0, 2, 3, 5 and is left out of
\* folds 1, 4, 6, 8.
C19_FoldRolesPerObservation ==
    (pc = "constructed" /\ n_cluster_vars = 2) =>
        \A o \in Obs(N, M) :
            /\ Cardinality(ScoreFolds(o)) = 1
            /\ Cardinality(NuisanceFolds(o)) = (n_folds - 1) * (n_folds - 1)
            /\ Cardinality(LeftOutFolds(o)) = 2 * (n_folds - 1)
            /\ \A s \in ScoreFolds(o) :
                  /\ NuisanceFolds(o) =
                        {f \in 0..(n_folds * n_folds - 1) :
                            /\ f \div n_folds # s \div n_folds
                            /\ f % n_folds # s % n_folds}
                  /\ LeftOutFolds(o) =
                        {f \in 0..(n_folds * n_folds - 1) :
                            (f \div n_folds = s \div n_folds)
                                # (f % n_folds = s % n_folds)}
                  /\ (n_folds = 3 /\ s = 7) =>
                        /\ NuisanceFolds(o) = {0, 2, 3, 5}
                        /\ LeftOutFolds(o) = {1, 4, 6, 8}

C19_Witness ==
    /\ pc = "constructed"
    /\ n_cluster_vars = 2
    /\ n_folds = 3
    /\ ScoreFolds(<<1, 1>>) = {7}
    /\ NuisanceFolds(<<1, 1>>) = {0, 2, 3, 5}

\* C14: within one run the folds are generated once (the splitting is set by
\* the construction and changes again only when it is discarded), a fold is
\* trained on only after it was generated and on its generated nuisance
\* sample, a fold's moment condition is evaluated only after its nuisance
\* training, and after the discard no fold is trained on or evaluated.
C14_FoldLifecycle ==
    /\ [][(smpls' # smpls) =>
             \/ (pc = "new" /\ pc' = "constructed" /\ smpls = <<>>)
             \/ (pc = "done" /\ pc' = "discarded" /\ smpls' = <<>>)]_vars
    /\ [][\A f \in DOMAIN stage :
             (f \in DOMAIN stage' /\ stage'[f] # stage[f]) =>
                 /\ f \in DOMAIN smpls
                 /\ smpls' = smpls
                 /\ stage[f] = "pending" => (/\ stage'[f] = "fitted"
                                             /\ fit_on'[f] = smpls[f].train_ids)
                 /\ stage'[f] = "scored" => (/\ stage[f] = "fitted"
                                             /\ fit_on[f] = smpls[f].train_ids
                                             /\ eval_on'[f] = smpls[f].test_ids)]_vars
    /\ [][pc = "discarded" =>
             /\ pc' = "discarded"
             /\ <<stage, fit_on, eval_on, eta_used>>'
                    = <<stage, fit_on, eval_on, eta_used>>]_vars
    /\ [](pc = "discarded" => \A f \in DOMAIN stage : stage[f] = "scored")

C14_Witness ==
    /\ pc = "discarded"
    /\ smpls = <<>>
    /\ Cardinality(DOMAIN stage) >= 2
    /\ \A f \in DOMAIN stage : stage[f] = "scored" /\ fit_on[f] # {}

\* C13: every repetition has its own pair of partition families, drawn for
\* it; each repetition's partitions have K non-empty subsets, its K^2 (or K)
\* folds are built from its own partitions and keep the clusters of the score
\* and the nuisance sample apart, and the fits of a repetition use that
\* repetition's folds and no other's.
C13_RepetitionsAreIndependent ==
    reps.pc # "idle" =>
        /\ Len(reps.parts) <= reps.n_rep
        /\ Len(reps.smpls) = Len(reps.parts)
        /\ Len(reps.fits) <= Len(reps.smpls)
        /\ reps.pc = "done" => Len(reps.fits) = reps.n_rep
        /\ \A r \in 1..Len(reps.parts) :
              LET pI == reps.parts[r][1]
                  pJ == reps.parts[r][2]
                  two == n_cluster_vars = 2
              IN  /\ pI \in [1..N -> 1..n_folds]
                  /\ \A k \in 1..n_folds : \E i \in 1..N : pI[i] = k
                  /\ two => /\ pJ \in [1..M -> 1..n_folds]
                            /\ \A l \in 1..n_folds : \E j \in 1..M : pJ[j] = l
                  /\ DOMAIN reps.smpls[r] =
                        0..((IF two THEN n_folds * n_folds ELSE n_folds) - 1)
                  /\ \A f \in DOMAIN reps.smpls[r] :
                        LET k == IF two THEN (f \div n_folds) + 1 ELSE f + 1
                            l == (f % n_folds) + 1
                        IN  /\ reps.smpls[r][f].test_ids =
                                  {o \in (1..N) \X (1..M) :
                                      pI[o[1]] = k /\ (two => pJ[o[2]] = l)}
                            /\ reps.smpls[r][f].train_ids =
                                  {o \in (1..N) \X (1..M) :
                                      pI[o[1]] # k /\ (two => pJ[o[2]] # l)}
                            /\ \A o \in reps.smpls[r][f].train_ids,
                                  p \in reps.smpls[r][f].test_ids :
                                  o[1] # p[1] /\ (two => o[2] # p[2])
        /\ \A r \in 1..Len(reps.fits) :
              /\ DOMAIN reps.fits[r] = DOMAIN reps.smpls[r]
              /\ \A f \in DOMAIN reps.fits[r] :
                    /\ reps.fits[r][f].rep = r
                    /\ reps.fits[r][f].fit_on = reps.smpls[r][f].train_ids
                    /\ reps.fits[r][f].eval_on = reps.smpls[r][f].test_ids

C13_Witness ==
    /\ reps.pc = "done"
    /\ reps.n_rep = 2
    /\ n_cluster_vars = 2
    /\ reps.parts[1][1] # reps.parts[2][1]
    /\ reps.parts[1][2] # reps.parts[2][2]
    /\ reps.smpls[1] # reps.smpls[2]

\* C20 as stated: addChapters, addSections and resizeAllGridItems are executed
\* when the window load event fires: the decorations run during the load event
\* only, the grid is resized during the load event or a resize event only,
\* after the ready callback window.onload holds a handler, and once the load
\* event has fired all three have run during it.
C20_FunctionsRunOnWindowLoad ==
    toc.pc # "idle" =>
        /\ \A e \in toc.log :
              /\ e[1] \in {"addChapters", "addSections"} => e[2] = "load"
              /\ e[1] = "resizeAllGridItems" => e[2] \in {"load", "resize"}
        /\ toc.pc = "ready" => toc.onload # "null"
        /\ toc.pc = "loaded" =>
              {<<"addChapters", "load">>, <<"addSections", "load">>,
               <<"resizeAllGridItems", "load">>} \subseteq toc.log

\* C20, what the template does: the three functions are executed by the ready
\* callback, before the load event; window.onload never holds a handler, and
\* the load event runs none of them.
C20_FunctionsRunInReadyCallback ==
    toc.pc # "idle" =>
        /\ toc.onload = "null"
        /\ \A e \in toc.log :
              /\ e[1] \in {"addChapters", "addSections"} => e[2] = "ready"
              /\ e[1] = "resizeAllGridItems" => e[2] \in {"ready", "resize"}
        /\ toc.pc \in {"ready", "loaded"} =>
              {<<"addChapters", "ready">>, <<"addSections", "ready">>,
               <<"resizeAllGridItems", "ready">>} \subseteq toc.log

C20_Witness ==
    /\ toc.pc = "loaded"
    /\ toc.log = {<<"addChapters", "ready">>, <<"addSections", "ready">>,
                  <<"resizeAllGridItems", "ready">>}
    /\ \A i \in DOMAIN toc.spans : toc.spans[i] >= 2

\* The number elements of every chapter, section and third-level entry of the
\* page.
NumberCounts ==
    LET chs == {toc.chapters[i] : i \in DOMAIN toc.chapters}
        secs == UNION {{ch.sections[k] : k \in DOMAIN ch.sections} : ch \in chs}
        subs == UNION {{sec.subs[n] : n \in DOMAIN sec.subs} : sec \in secs}
    IN  {Len(e.numbers) : e \in chs} \cup {Len(e.numbers) : e \in secs}
            \cup {Len(e.numbers) : e \in subs}

\* C21: whatever page events follow, the ready callback has wrapped the
\* chapters, then run addChapters, then addSections, each once, and every
\* chapter, section and third-level entry has exactly one number element; no
\* later event (load or resize) touches the entries, and an event that leaves
\* the item heights as they are leaves every row span as it is.
C21_DecorationsRunOnceInOrder ==
    /\ [](toc.pc \in {"ready", "loaded"} =>
             /\ toc.wrapped
             /\ SubSeq(toc.order, 1, 3) = <<"wrap", "addChapters", "addSections">>
             /\ \A f \in {"wrap", "addChapters", "addSections"} :
                   Cardinality({i \in DOMAIN toc.order : toc.order[i] = f}) = 1
             /\ NumberCounts = {1})
    /\ [][toc.pc \in {"ready", "loaded"} =>
             /\ toc'.chapters = toc.chapters
             /\ toc'.order = toc.order
             /\ toc'.log \subseteq toc.log \cup {<<"resizeAllGridItems", "resize">>}
             /\ toc'.heights = toc.heights => toc'.spans = toc.spans]_vars

C21_Witness ==
    /\ toc.pc = "loaded"
    /\ <<"resizeAllGridItems", "resize">> \in toc.log
    /\ Len(toc.chapters) = 2
    /\ NumberCounts = {1}
    /\ toc.spans[1] # toc.spans[2]

\* n written with at least two digits
ZeroPadTwo(n) == IF n < 10 THEN <<"0">> \o Digits(n) ELSE Digits(n)

\* C22 as stated: for every chapter served as "<n>. <title>", addChapters
\* leaves one header number, n zero-padded to two digits, and the full title
\* as link text, for every n >= 1 and every title.
C22_AddChaptersNumberAndFullTitle ==
    toc.pc \in {"ready", "loaded"} =>
        \A i \in DOMAIN toc.chapters :
        \A n \in 1..MaxChapterNumber, title \in Titles :
            toc.served[i].text = ChapterText(n, title) =>
                /\ toc.chapters[i].numbers =
                      <<[class |-> "item-header-number", text |-> ZeroPadTwo(n)]>>
                /\ toc.chapters[i].text = title

\* The characters of s before its first period (all of s if it has none).
RECURSIVE UpToPeriod(_)
UpToPeriod(s) ==
    IF s = <<>> \/ Head(s) = "." THEN <<>>
    ELSE <<Head(s)>> \o UpToPeriod(Tail(s))

\* C22, what addChapters does: the header number is n zero-padded to two
\* digits for n up to 99 and the last two digits of n from 100 on; the link
\* text is the title up to its first period, which is the full title exactly
\* when the title has no period.
C22_AddChaptersTwoDigitsAndTitleUpToPeriod ==
    toc.pc \in {"ready", "loaded"} =>
        \A i \in DOMAIN toc.chapters :
        \A n \in 1..MaxChapterNumber, title \in Titles :
            toc.served[i].text = ChapterText(n, title) =>
                /\ Len(toc.chapters[i].numbers) = 1
                /\ toc.chapters[i].numbers[1].class = "item-header-number"
                /\ toc.chapters[i].numbers[1].text =
                      IF n < 100 THEN ZeroPadTwo(n)
                      ELSE SubSeq(Digits((n % 100) + 100), 2, 3)
                /\ toc.chapters[i].text = UpToPeriod(title)
                /\ (\A c \in DOMAIN title : title[c] # ".")
                      => toc.chapters[i].text = title

C22_Witness ==
    /\ toc.pc = "ready"
    /\ toc.served[1].text = <<"7", ".", " ", "A", ".", "b", ".", "c">>
    /\ toc.chapters[1].text = <<"A">>
    /\ toc.chapters[1].numbers[1].text = <<"0", "7">>

\* The entry got exactly one number element, of class cls; it holds the
\* entry's number (the served text up to its first blank) and the link text is
\* the rest of the served text.
DecoratedOnce(entry, served, cls) ==
    /\ Len(entry.numbers) = 1
    /\ entry.numbers[1].class = cls
    /\ entry.numbers[1].text # <<>>
    /\ \A c \in DOMAIN entry.numbers[1].text : entry.numbers[1].text[c] # " "
    /\ entry.numbers[1].text \o <<" ">> \o entry.text = served.text

\* C23: after addSections has gone through every list under a chapter, the
\* nested third-level lists included, every second-level entry has exactly one
\* Section-number and every third-level entry exactly one
\* under-Section-number, holding the entry's number, and the link texts are
\* the names without the numbers.
C23_SectionsDecoratedOnce ==
    toc.pc \in {"ready", "loaded"} =>
        \A i \in DOMAIN toc.chapters :
            /\ DOMAIN toc.chapters[i].sections = DOMAIN toc.served[i].sections
            /\ \A k \in DOMAIN toc.chapters[i].sections :
                  LET sec == toc.chapters[i].sections[k]
                      was == toc.served[i].sections[k]
                  IN  /\ DecoratedOnce(sec, was, "Section-number")
                      /\ DOMAIN sec.subs = DOMAIN was.subs
                      /\ \A n \in DOMAIN sec.subs :
                            DecoratedOnce(sec.subs[n], was.subs[n],
                                          "under-Section-number")

C23_Witness ==
    /\ toc.pc = "ready"
    /\ Len(toc.chapters[1].sections) = 2
    /\ Len(toc.chapters[1].sections[1].subs) = 2
    /\ Len(toc.chapters[1].sections[2].subs) = 0
    /\ toc.chapters[1].sections[1].subs[2].text = <<"S", " ", "t">>
    /\ toc.chapters[1].sections[1].subs[2].numbers[1].text
          = <<"1", ".", "1", ".", "2", ".">>

\* C24: the row span resizeGridItem gives an item of height h is the smallest
\* span whose rows cover the item: s rows of height rowHeight with gaps of
\* rowGap between them are s*(rowHeight + rowGap) - rowGap high, which is at
\* least h, while s - 1 rows are less than h high.
C24_RowSpanIsSmallestCover ==
    toc.pc \in {"ready", "loaded"} =>
        \A i \in DOMAIN toc.spans :
            LET s == toc.spans[i]
                h == toc.heights[i]
            IN  /\ s >= 1
                /\ s * (grid_auto_rows + grid_gap) - grid_gap >= h
                /\ (s - 1) * (grid_auto_rows + grid_gap) - grid_gap < h

C24_Witness ==
    /\ toc.pc = "loaded"
    /\ <<"resizeAllGridItems", "resize">> \in toc.log
    /\ toc.heights = <<15, 16>>
    /\ toc.spans = <<2, 3>>

\* The loop of plt_smpls with the two assignments of a fold exchanged.
RECURSIVE AssignFoldsScoreFirst(_, _, _, _)
AssignFoldsScoreFirst(df, sm, i, base) ==
    IF i \notin DOMAIN sm
    THEN df
    ELSE AssignFoldsScoreFirst(SetCells(SetCells(df, sm[i].test_ids, i + base, 1),
                                        sm[i].train_ids, i + base, -1),
                               sm, i + 1, base)

\* The number of the first column: 0 in Python, 1 in R.
ColumnBase == IF plots.lang = "py" THEN 0 ELSE 1

\* C25: after plt_smpls the entry of observation o and fold f is 1 exactly
\* when o is in the fold's score sample, -1 exactly when o is in its nuisance
\* sample and 0 otherwise; the two samples of a fold are disjoint, so the
\* matrix is the same with the two assignments exchanged; and the matrix has
\* one column per fold.
C25_MatrixMarksFolds ==
    plots.pc = "plt_smpls" =>
        /\ plots.columns = {f + ColumnBase : f \in DOMAIN smpls}
        /\ {x[2] : x \in DOMAIN plots.df} = plots.columns
        /\ Cardinality(plots.columns) = NumSplits(n_folds, n_cluster_vars)
        /\ \A f \in DOMAIN smpls :
              /\ smpls[f].train_ids \cap smpls[f].test_ids = {}
              /\ \A o \in Obs(N, M) :
                    LET v == plots.df[<<o, f + ColumnBase>>] IN
                    /\ v = 1 <=> o \in smpls[f].test_ids
                    /\ v = -1 <=> o \in smpls[f].train_ids
                    /\ v = 0 <=> o \notin smpls[f].test_ids \cup smpls[f].train_ids
        /\ plots.df = AssignFoldsScoreFirst(Zeros(Obs(N, M), plots.columns),
                                            smpls, 0, ColumnBase)

C25_Witness ==
    /\ plots.pc = "plt_smpls"
    /\ plots.lang = "py"
    /\ n_folds = 2
    /\ N = 3
    /\ M = 2
    /\ plots.df[<<<<1, 1>>, 0>>] = 1
    /\ plots.df[<<<<1, 1>>, 3>>] = -1
    /\ plots.df[<<<<1, 1>>, 1>>] = 0

\* C26: the labels k = i_split div K + 1 and l = i_split mod K + 1 of the
\* subplots are a bijection from the fold positions 0..K^2-1 onto
\* {1..K} x {1..K} with inverse i_split = (k-1)*K + (l-1), and the R helper
\* computes the same labels from the 1-based i_fold = i_split + 1.
C26_SubplotLabelsBijective ==
    plots.pc \in {"plt_smpls_cluster", "error"} =>
        LET K == n_folds
            base == ColumnBase
        IN  /\ \A i \in DOMAIN plots.labels :
                  LET k == plots.labels[i][1]
                      l == plots.labels[i][2]
                  IN  /\ plots.labels[i] \in (1..K) \X (1..K)
                      /\ i - base = (k - 1) * K + (l - 1)
                      /\ plots.labels[i] = <<FoldK(i - base, K, 2), FoldL(i - base, K, 2)>>
                      /\ plots.labels[i] = <<R_FoldK(i - base + 1, K), R_FoldL(i - base + 1, K)>>
            /\ \A i, j \in DOMAIN plots.labels :
                  plots.labels[i] = plots.labels[j] => i = j
            /\ plots.pc = "plt_smpls_cluster" =>
                  /\ DOMAIN plots.labels = {f + base : f \in 0..(K * K - 1)}
                  /\ {plots.labels[i] : i \in DOMAIN plots.labels} = (1..K) \X (1..K)

C26_Witness ==
    /\ plots.pc = "plt_smpls_cluster"
    /\ plots.lang = "R"
    /\ n_folds = 3
    /\ plots.labels[6] = <<2, 3>>

\* The writes of the R helper stay inside the matrix and the id column has
\* one entry per row.
WritesStayInside ==
    /\ \A i_fold \in DOMAIN plots.writes :
          \A cell \in plots.writes[i_fold] :
              cell[1] \in 1..plots.nrow /\ cell[2] \in 1..plots.ncol
    /\ Len(plots.id) = plots.nrow

\* C27 as stated: in the R helper plt_smpls_cluster every write mat[k, l]
\* stays inside the matrix and the id column 1:N has as many entries as the
\* matrix has rows, for every N and M.
C27_WritesStayInsideEveryNM ==
    (plots.pc \in {"plt_smpls_cluster", "error"} /\ plots.lang = "R")
        => WritesStayInside

\* C27 as the helper behaves: the writes stay inside the matrix and the id
\* column fits exactly when N = M; with N # M the call ends in an error.
C27_WritesStayInsideSquareOnly ==
    (plots.pc \in {"plt_smpls_cluster", "error"} /\ plots.lang = "R")
        => /\ WritesStayInside <=> N = M
           /\ plots.pc = "error" <=> N # M

C27_Witness ==
    /\ plots.pc = "error"
    /\ plots.lang = "R"
    /\ N = 2
    /\ M = 3
    /\ n_folds = 2
    /\ \E cell \in plots.writes[1] : cell[2] > plots.ncol

\* Every object that has been printed had been fit.
PrintedAfterFit ==
    \A i \in DOMAIN nb.out : nb.out[i].object.fitted

\* C28 as stated: every DoubleMLPLR object of the pipeline notebook is fit
\* before it is printed, and the object tune() is called on is the object
\* that is fit and printed afterwards.
C28_TunedObjectIsFitAndPrinted ==
    nb.pc = "done" =>
        /\ PrintedAfterFit
        /\ \A n \in ObjectNames :
              nb.objs[n].tuned =>
                  /\ nb.objs[n].fitted
                  /\ nb.out[Len(nb.out)].name = n
                  /\ nb.out[Len(nb.out)].object.tuned

\* C28 as the notebook runs: every object is fit before it is printed; the
\* object tune() is called on, obj_dml_plr_sim_pipe_tune, is neither fit nor
\* printed, and the cell after the tuning fits and prints
\* obj_dml_plr_sim_pipe, which was not tuned.
C28_TunedObjectIsNeverFit ==
    /\ nb.pc \in {"running", "done"} => PrintedAfterFit
    /\ nb.pc = "done" =>
          /\ {n \in ObjectNames : nb.objs[n].tuned} = {"obj_dml_plr_sim_pipe_tune"}
          /\ ~nb.objs["obj_dml_plr_sim_pipe_tune"].fitted
          /\ \A i \in DOMAIN nb.out : nb.out[i].name # "obj_dml_plr_sim_pipe_tune"
          /\ nb.out[Len(nb.out)].name = "obj_dml_plr_sim_pipe"
          /\ ~nb.out[Len(nb.out)].object.tuned

C28_Witness ==
    /\ nb.pc = "done"
    /\ nb.objs["obj_dml_plr_sim_pipe_tune"].tuned
    /\ nb.out[Len(nb.out)].at = Len(Notebook)
    /\ nb.out[Len(nb.out)].object.fitted

====
